---- MODULE Spec2Model ----
(***************************************************************************)
(* Order-book reconstruction and auction-price extraction of               *)
(* hft_data_prep/data_loader.py.                                           *)
(*                                                                         *)
(* A DataFrame is a sequence of rows (records); a pivoted / aggregated     *)
(* frame is a function  timestamp -> (price -> value).  Index unions and   *)
(* pivots produce a sorted index in pandas; here an index is a set of      *)
(* integers and every row-wise scan runs in ascending integer order.       *)
(***************************************************************************)
EXTENDS Integers, Sequences, FiniteSets, TLC

\* ---------------------------------------------------------------- bounds
MaxEvents == 3      \* rows of a frame
NumOrders == 2      \* order numbers 1..NumOrders
MaxQty == 1         \* posted quantities 0..MaxQty
NumStocks == 2      \* stock codes 1..NumStocks

\* ------------------------------------------------------ program constants
NaN == -1           \* np.nan: a missing cell / an undefined best price
NaT == -2           \* pd.NaT: an absent timestamp
BID == 1
ASK == 2
TRADE == 3          \* change_reason of a trade/match event

VARIABLES df, pc, result
vars == <<df, pc, result>>

Row(ts, o, p, q, s, cr, bp, sc) ==
    [timestamp |-> ts, order_number |-> o, price |-> p, mp_quantity |-> q,
     bid_or_ask |-> s, change_reason |-> cr, bestprice |-> bp, stockcode |-> sc]

Orders == 1..NumOrders
PriceLevels == {1, 2}
Quantities == 0..MaxQty

\* filter_data hands the rows over sorted by timestamp.  The reconstructor
\* only compares timestamps, so the next row carries the timestamp of the
\* last row or the next instant.
NextTimestamps(f) ==
    IF f = <<>> THEN {1} ELSE {f[Len(f)].timestamp, f[Len(f)].timestamp + 1}

\* order_number is an opaque key that the reconstructor only groups by, so
\* the next row belongs to an order already seen or to the least unused one
NextOrders(f) ==
    {o \in Orders : \A n \in 1..(o - 1) : \E i \in DOMAIN f : f[i].order_number = n}

Max(S) == CHOOSE x \in S : \A y \in S : y <= x
Min(S) == CHOOSE x \in S : \A y \in S : x <= y

RECURSIVE SumOver(_, _)
SumOver(S, f) ==
    IF S = {} THEN 0
    ELSE LET x == CHOOSE y \in S : TRUE IN f[x] + SumOver(S \ {x}, f)

\* ------------------------------------------------- OrderBookProcessor
\* df[df["bid_or_ask"] == tag]
SideRows(clean, tag) == SelectSeq(clean, LAMBDA e : e.bid_or_ask = tag)

\* the groups of bo2.groupby("order_number")
OrderKeys(bo2) == {bo2[i].order_number : i \in DOMAIN bo2}
GroupRows(bo2, o) == SelectSeq(bo2, LAMBDA e : e.order_number = o)

\* the price columns of the concatenated pivots
Columns(bo2) == {bo2[i].price : i \in DOMAIN bo2}
\* the (sorted, unique) timestamp index of a pivot
Index(x) == {x[i].timestamp : i \in DOMAIN x}

\* x.pivot(columns="price", values="mp_quantity") raises ValueError when two
\* rows of the group share index (timestamp) and column (price)
PivotRaises(x) ==
    \E i, j \in DOMAIN x : i < j /\ x[i].timestamp = x[j].timestamp
                                 /\ x[i].price = x[j].price

\* the cell (t, p) of the pivot of group x; NaN where the group has no row
PivotCell(x, t, p) ==
    IF \E i \in DOMAIN x : x[i].timestamp = t /\ x[i].price = p
    THEN x[CHOOSE i \in DOMAIN x : x[i].timestamp = t /\ x[i].price = p].mp_quantity
    ELSE NaN

\* the cell (t, p) of pivot(...).shift(1): the previous row of the pivot,
\* NaN in the first row
NoPrevCell(x, t, p) == NaN
ShiftCell(x, t, p) ==
    LET earlier == {u \in Index(x) : u < t}
    IN  IF earlier = {} THEN NaN ELSE PivotCell(x, Max(earlier), p)

FillNa(v) == IF v = NaN THEN 0 ELSE v

\* order_history = current - prev, one frame per order number, over the
\* order's own timestamps and the price columns of the whole side
build_order_history(bo2) ==
    [o \in OrderKeys(bo2) |->
        LET x == GroupRows(bo2, o)
        IN  [t \in Index(x) |->
               [p \in Columns(bo2) |->
                   FillNa(PivotCell(x, t, p)) - FillNa(ShiftCell(x, t, p))]]]

\* mbp.add(y, fill_value=0): union of the indexes, a missing side counts 0
FrameAdd(m, y, cols) ==
    [t \in (DOMAIN m) \cup (DOMAIN y) |->
        [p \in cols |->
            (IF t \in DOMAIN m THEN m[t][p] ELSE 0)
          + (IF t \in DOMAIN y THEN y[t][p] ELSE 0)]]

\* for _, y in order_history: mbp = mbp.add(...), groups in key order
RECURSIVE AddOrders(_, _, _)
AddOrders(oh, keys, cols) ==
    IF keys = {} THEN [t \in {} |-> [p \in cols |-> 0]]
    ELSE LET o == Max(keys)
         IN  FrameAdd(AddOrders(oh, keys \ {o}, cols), oh[o], cols)

\* mbp.sort_index(axis=1).expanding().sum(): running total down the rows
ExpandingSum(m, cols) ==
    [t \in DOMAIN m |->
        [p \in cols |->
            SumOver({u \in DOMAIN m : u <= t}, [u \in DOMAIN m |-> m[u][p]])]]

\* best_price[best_price != 0] = 1
Flag(v) == IF v # 0 THEN 1 ELSE 0

\* the best-price row reduction of build_mbp
BestOfRowSwapped(r, cols, order_type) ==
    IF order_type = "ask"
    THEN Max({Flag(r[p]) * p : p \in cols})
    ELSE LET live == {Flag(r[p]) * p : p \in {c \in cols : Flag(r[c]) # 0}}
         IN  IF live = {} THEN NaN ELSE Min(live)
BestOfRow(r, cols, order_type) ==
    IF order_type = "bid"
    THEN Max({Flag(r[p]) * p : p \in cols})
    ELSE \* replace(0, np.nan), then min(axis=1) skips the NaN cells
         LET live == {Flag(r[p]) * p : p \in {c \in cols : Flag(r[c]) # 0}}
         IN  IF live = {} THEN NaN ELSE Min(live)

\* On a frame without rows groupby(...).apply returns an empty frame that
\* keeps the columns of bo2 and is indexed by order_number, so that
\* reset_index(0) cannot insert the order_number column: ValueError.
ResetIndexRaises(bo2) == bo2 = <<>>

\* build_mbp returns (mbp, best_price, best_size); best_size is dropped by
\* every caller and is not modelled
build_mbp(bo2, order_type) ==
    IF \/ ResetIndexRaises(bo2)
       \/ \E o \in OrderKeys(bo2) : PivotRaises(GroupRows(bo2, o))
    THEN [status |-> "ValueError", order_type |-> order_type,
          mbp |-> <<>>, best_price |-> <<>>]
    ELSE LET cols == Columns(bo2)
             mbp == ExpandingSum(AddOrders(build_order_history(bo2),
                                           OrderKeys(bo2), cols), cols)
         IN  [status |-> "ok", order_type |-> order_type, mbp |-> mbp,
              best_price |-> [t \in DOMAIN mbp |-> BestOfRow(mbp[t], cols, order_type)]]

AskRowsOnly(clean) == SideRows(clean, ASK)
BidRows(clean) == SideRows(clean, BID)
AskRows(clean) == SideRows(clean, ASK)

process(clean) ==
    LET b == build_mbp(BidRows(clean), "bid")
        a == build_mbp(AskRows(clean), "ask")
    IN  IF b.status # "ok" \/ a.status # "ok"
        THEN [status |-> "ValueError", bid_mbp |-> <<>>, ask_mbp |-> <<>>,
              bid_price |-> <<>>, ask_price |-> <<>>]
        ELSE [status |-> "ok", bid_mbp |-> b.mbp, ask_mbp |-> a.mbp,
              bid_price |-> b.best_price, ask_price |-> a.best_price]

\* ------------------------------------------------------------ one side
\* the frame handed to build_mbp holds the rows of one side
InitMbp == df = <<>> /\ pc = "ingest" /\ result = <<>>

IngestSide ==
    /\ pc = "ingest"
    /\ Len(df) < MaxEvents
    /\ \E ts \in NextTimestamps(df), o \in NextOrders(df), p \in PriceLevels,
          q \in Quantities, s \in {BID, ASK} :
          /\ df # <<>> => s = df[1].bid_or_ask
          /\ df' = Append(df, Row(ts, o, p, q, s, 0, 0, 1))
    /\ UNCHANGED <<pc, result>>

BuildMbp ==
    /\ pc = "ingest"
    /\ df # <<>>
    /\ result' = build_mbp(df, IF df[1].bid_or_ask = BID THEN "bid" ELSE "ask")
    /\ pc' = "built"
    /\ UNCHANGED df

NextMbp == IngestSide \/ BuildMbp
SpecMbp == InitMbp /\ [][NextMbp]_vars

\* ----------------------------------------------------------- both sides
SideTags == {BID, ASK, NaN}

InitProcess == df = <<>> /\ pc = "ingest" /\ result = <<>>

\* the rows of each side belong to one order
IngestTick ==
    /\ pc = "ingest"
    /\ Len(df) < MaxEvents
    /\ \E ts \in NextTimestamps(df), p \in PriceLevels, q \in Quantities,
          s \in SideTags :
          df' = Append(df, Row(ts, 1, p, q, s, 0, 0, 1))
    /\ UNCHANGED <<pc, result>>

Process ==
    /\ pc = "ingest"
    /\ result' = process(df)
    /\ pc' = "processed"
    /\ UNCHANGED df

NextProcess == IngestTick \/ Process
SpecProcess == InitProcess /\ [][NextProcess]_vars

\* ------------------------------------------------- auction extraction
\* a clock time, in seconds since midnight; every row of a frame lies on
\* one calendar date
HMS(h, m, sec) == h * 3600 + m * 60 + sec
MorningStart == HMS(8, 58, 0)
MorningEnd == HMS(9, 0, 0)
ClosingStart == HMS(17, 4, 0)
ClosingEnd == HMS(17, 6, 0)
PreCloseStart == HMS(16, 59, 0)
PreCloseEnd == HMS(17, 0, 0)

\* df[(time >= lo) & (time <= hi)]
Window(f, lo, hi) ==
    SelectSeq(f, LAMBDA e : e.timestamp >= lo /\ e.timestamp <= hi)

\* w['timestamp'].value_counts()
ValueCount(w, t) == Cardinality({i \in DOMAIN w : w[i].timestamp = t})

\* value_counts().idxmax(): a label of the highest count.  The order
\* value_counts gives to labels of equal count is the library's (hash-table
\* order, then a quicksort by count), so any of the tied labels can come
\* first; the set holds every label idxmax can return.
IdxMax(w) ==
    {t \in Index(w) : \A u \in Index(w) : ValueCount(w, u) <= ValueCount(w, t)}

\* w[(timestamp == mft) & (change_reason == 3) & (mp_quantity != 0)]
MatchingTradesAnyQty(w, mft) ==
    SelectSeq(w, LAMBDA e : e.timestamp = mft /\ e.change_reason = TRADE)
MatchingTrades(w, mft) ==
    SelectSeq(w, LAMBDA e : /\ e.timestamp = mft
                            /\ e.change_reason = TRADE
                            /\ e.mp_quantity # 0)

\* the body shared by the two find_*_matching_price functions, for the
\* label mft that idxmax returned (NaT when the window is empty)
MatchingPrice(w, mft) ==
    IF w = <<>> THEN [timestamp |-> NaT, price |-> 0]
    ELSE IF MatchingTrades(w, mft) # <<>>
         THEN [timestamp |-> mft, price |-> MatchingTrades(w, mft)[1].price]
         ELSE [timestamp |-> mft, price |-> 0]

\* the labels idxmax can return for a window, NaT for the early return
Choices(w) == IF w = <<>> THEN {NaT} ELSE IdxMax(w)

find_morning_matching_price(f, mft) ==
    MatchingPrice(Window(f, MorningStart, MorningEnd), mft)
find_closing_matching_price(f, mft) ==
    MatchingPrice(Window(f, ClosingStart, ClosingEnd), mft)

\* side_df['bestprice'].iloc[-1] if not side_df.empty else 0
FirstBestPrice(side_df) ==
    IF side_df = <<>> THEN 0 ELSE side_df[1].bestprice
LastBestPrice(side_df) ==
    IF side_df = <<>> THEN 0 ELSE side_df[Len(side_df)].bestprice

QuotesOf(rows) ==
    IF rows = <<>> THEN [bid |-> 0, ask |-> 0]
    ELSE [bid |-> LastBestPrice(SideRows(rows, BID)),
          ask |-> LastBestPrice(SideRows(rows, ASK))]

find_bid_ask_prices_unguarded(f, timestamp, is_closing) ==
    IF is_closing
    THEN QuotesOf(Window(f, PreCloseStart, PreCloseEnd))
    ELSE QuotesOf(SelectSeq(f, LAMBDA e : e.timestamp = timestamp))
find_bid_ask_prices(f, timestamp, is_closing) ==
    IF timestamp = NaT THEN [bid |-> 0, ask |-> 0]
    ELSE IF is_closing
         THEN QuotesOf(Window(f, PreCloseStart, PreCloseEnd))
         ELSE QuotesOf(SelectSeq(f, LAMBDA e : e.timestamp = timestamp))

\* the groups of filtered_df.groupby([date, 'stockcode'])
StockKeys(f) == {f[i].stockcode : i \in DOMAIN f}
StockRows(f, sc) == SelectSeq(f, LAMBDA e : e.stockcode = sc)

\* one record of process_daily_data, for the labels mt and ct that idxmax
\* returned in the two windows of the group
DailyRecord(group, mt, ct) ==
    LET m == find_morning_matching_price(group, mt)
        c == find_closing_matching_price(group, ct)
        mq == find_bid_ask_prices(group, m.timestamp, FALSE)
        cq == find_bid_ask_prices(group, c.timestamp, TRUE)
    IN  [morning_matching_timestamp |-> m.timestamp,
         morning_matching_price |-> m.price,
         morning_bid_price |-> mq.bid,
         morning_ask_price |-> mq.ask,
         closing_matching_timestamp |-> c.timestamp,
         closing_matching_price |-> c.price,
         closing_bid_price |-> cq.bid,
         closing_ask_price |-> cq.ask]

\* ----------------------------------------------- matching-price frames
\* the rows of a frame lie around one auction window: on its first and last
\* instant, and one second after it
MorningTimes == {MorningStart, MorningEnd, MorningEnd + 1}
ClosingTimes == {ClosingStart, ClosingEnd, ClosingEnd + 1}
Reasons == {1, TRADE}
\* mp_quantity is only compared with 0 by the two functions
TradeQuantities == {0, 1}

InitMatch == df = <<>> /\ pc = "ingest" /\ result = <<>>

IngestAuction ==
    /\ pc = "ingest"
    /\ Len(df) < MaxEvents
    /\ \E ts \in MorningTimes \cup ClosingTimes, cr \in Reasons,
          q \in TradeQuantities, p \in PriceLevels :
          /\ df # <<>> => (ts \in MorningTimes <=> df[1].timestamp \in MorningTimes)
          /\ df' = Append(df, Row(ts, 1, p, q, BID, cr, 0, 1))
    /\ UNCHANGED <<pc, result>>

FindMorning ==
    /\ pc = "ingest"
    /\ \E mft \in Choices(Window(df, MorningStart, MorningEnd)) :
          result' = [auction |-> "morning"] @@ find_morning_matching_price(df, mft)
    /\ pc' = "matched"
    /\ UNCHANGED df

FindClosing ==
    /\ pc = "ingest"
    /\ \E mft \in Choices(Window(df, ClosingStart, ClosingEnd)) :
          result' = [auction |-> "closing"] @@ find_closing_matching_price(df, mft)
    /\ pc' = "matched"
    /\ UNCHANGED df

NextMatch == IngestAuction \/ FindMorning \/ FindClosing
SpecMatch == InitMatch /\ [][NextMatch]_vars

\* ---------------------------------------------------------- daily frames
\* the rows of a day lie in the opening window, the pre-close window and
\* the closing window
DailyTimes == {MorningStart, MorningEnd, PreCloseStart, ClosingStart}
Stocks == 1..NumStocks

InitDaily == df = <<>> /\ pc = "ingest" /\ result = <<>>

\* filter_data hands over the rows sorted by ['stockcode', 'timestamp']
SortedAfter(f, sc, ts) ==
    f # <<>> =>
        \/ f[Len(f)].stockcode < sc
        \/ f[Len(f)].stockcode = sc /\ f[Len(f)].timestamp <= ts

IngestDaily ==
    /\ pc = "ingest"
    /\ Len(df) < MaxEvents
    /\ \E sc \in Stocks, ts \in DailyTimes, s \in {BID, ASK}, bp \in PriceLevels :
          /\ SortedAfter(df, sc, ts)
          /\ df' = Append(df, Row(ts, 1, 1, 1, s, TRADE, bp, sc))
    /\ UNCHANGED <<pc, result>>

\* the records process_daily_data can append for one group
GroupRecords(group) ==
    {DailyRecord(group, mt, ct) :
        mt \in Choices(Window(group, MorningStart, MorningEnd)),
        ct \in Choices(Window(group, ClosingStart, ClosingEnd))}

\* the tables with one record per group, each drawn from the group's set
RECURSIVE Tables(_)
Tables(sets) ==
    IF DOMAIN sets = {} THEN {<<>>}
    ELSE LET k == Max(DOMAIN sets)
             rest == [j \in (DOMAIN sets) \ {k} |-> sets[j]]
         IN  {(k :> r) @@ t : r \in sets[k], t \in Tables(rest)}

ProcessDaily ==
    /\ pc = "ingest"
    /\ result' \in Tables([sc \in StockKeys(df) |-> GroupRecords(StockRows(df, sc))])
    /\ pc' = "summarised"
    /\ UNCHANGED df

NextDaily == IngestDaily \/ ProcessDaily
SpecDaily == InitDaily /\ [][NextDaily]_vars

\* ------------------------------------------------------------- claims
\* the rows of f in event order
Rows(f) == DOMAIN f

DistinctPerOrder(f) ==
    \A i, j \in Rows(f) :
        (i # j /\ f[i].order_number = f[j].order_number)
            => f[i].timestamp # f[j].timestamp

\* the events of the same order that precede event i in time
Preceding(f, i) ==
    {j \in Rows(f) : f[j].order_number = f[i].order_number
                     /\ f[j].timestamp < f[i].timestamp}
\* the immediately preceding one
Previous(f, i) ==
    CHOOSE j \in Preceding(f, i) :
        \A k \in Preceding(f, i) : f[k].timestamp <= f[j].timestamp

\* +posted quantity at the event's own price, -the quantity the order
\* posted in its immediately preceding event at that event's price
SignedDelta(f, i, p) ==
      (IF f[i].price = p THEN f[i].mp_quantity ELSE 0)
    - (IF Preceding(f, i) # {} /\ f[Previous(f, i)].price = p
       THEN f[Previous(f, i)].mp_quantity ELSE 0)

DepthSum(f, t, p) ==
    SumOver({i \in Rows(f) : f[i].timestamp <= t},
            [i \in Rows(f) |-> SignedDelta(f, i, p)])

\* C1: when every order's events have pairwise distinct timestamps, the
\* depth matrix of build_mbp holds at every event timestamp t and observed
\* price p the sum, over all events with timestamp <= t, of the signed
\* delta at p.
C1_DepthIsSumOfDeltas ==
    (pc = "built" /\ DistinctPerOrder(df)) =>
        /\ result.status = "ok"
        /\ DOMAIN result.mbp = Index(df)
        /\ \A t \in Index(df) : \A p \in Columns(df) :
               result.mbp[t][p] = DepthSum(df, t, p)

\* an order moves price while another order rests: three events, two orders
C1_Witness ==
    /\ pc = "built" /\ DistinctPerOrder(df) /\ Len(df) = 3
    /\ Cardinality(OrderKeys(df)) = 2
    /\ \E i, j \in Rows(df) :
          /\ df[i].order_number = df[j].order_number
          /\ df[i].timestamp < df[j].timestamp
          /\ df[i].price # df[j].price
          /\ df[i].mp_quantity > 0 /\ df[j].mp_quantity > 0
          /\ result.mbp[df[j].timestamp][df[i].price] = 0

PositiveLevels(r) == {p \in DOMAIN r : r[p] > 0}

\* C2: at every timestamp with a price level of strictly positive depth,
\* the best price of build_mbp is the highest such price for "bid" and the
\* lowest such price for "ask".
C2_BestIsExtremePositive ==
    (pc = "built" /\ result.status = "ok") =>
        \A t \in DOMAIN result.mbp :
            PositiveLevels(result.mbp[t]) # {} =>
                result.best_price[t] =
                    IF result.order_type = "bid"
                    THEN Max(PositiveLevels(result.mbp[t]))
                    ELSE Min(PositiveLevels(result.mbp[t]))

\* two bid orders rest at a lower and a higher price, then the lower one
\* cancels: the best bid is the higher price before and after the cancel
C2_Witness ==
    /\ pc = "built" /\ result.status = "ok" /\ result.order_type = "bid"
    /\ Len(df) = 3
    /\ df[1].order_number # df[2].order_number
    /\ df[1].price < df[2].price
    /\ df[1].mp_quantity > 0 /\ df[2].mp_quantity > 0
    /\ df[1].timestamp < df[2].timestamp /\ df[2].timestamp < df[3].timestamp
    /\ df[3].order_number = df[1].order_number /\ df[3].price = df[1].price
    /\ df[3].mp_quantity = 0
    /\ Cardinality(PositiveLevels(result.mbp[df[2].timestamp])) = 2
    /\ result.best_price[df[2].timestamp] = df[2].price
    /\ result.best_price[df[3].timestamp] = df[2].price

\* the net contribution of order o to the depth matrix at (t, p): the
\* running total of the order's own history
Contribution(f, o, t, p) ==
    LET h == build_order_history(f)[o]
    IN  SumOver({u \in DOMAIN h : u <= t}, [u \in DOMAIN h |-> h[u][p]])

\* event i is a cancel: it posts zero and the order's previous event (in
\* event order) posted a positive quantity
EarlierOfOrder(f, i) == {j \in Rows(f) : j < i /\ f[j].order_number = f[i].order_number}
IsCancel(f, i) ==
    /\ f[i].mp_quantity = 0
    /\ EarlierOfOrder(f, i) # {}
    /\ f[Max(EarlierOfOrder(f, i))].mp_quantity > 0
IsLastOfOrder(f, i) ==
    \A k \in Rows(f) : k > i => f[k].order_number # f[i].order_number

\* C4: when an order's posted quantity transitions to zero, the order takes
\* exactly the quantity it last posted off the level it last rested on, and
\* from that timestamp on (while the order posts nothing new) its net
\* contribution to the depth matrix is zero at every price level.
C4_CancelRemovesContribution ==
    (pc = "built" /\ result.status = "ok") =>
        \A i \in Rows(df) :
            IsCancel(df, i) =>
                LET o == df[i].order_number
                    j == Max(EarlierOfOrder(df, i))
                IN  /\ build_order_history(df)[o][df[i].timestamp][df[j].price]
                          = 0 - df[j].mp_quantity
                    /\ IsLastOfOrder(df, i) =>
                          \A t \in DOMAIN result.mbp : \A p \in Columns(df) :
                              t >= df[i].timestamp => Contribution(df, o, t, p) = 0

NoPositiveDepth(r) == \A p \in DOMAIN r : r[p] <= 0

\* C3: at every timestamp at which no price level of a side has positive
\* depth, the best price reported for that side is undefined (NaN) and
\* never zero, on the bid side as well as on the ask side.
C3_NoQuoteIsUndefined ==
    (pc = "processed" /\ result.status = "ok") =>
        /\ \A t \in DOMAIN result.bid_price :
               NoPositiveDepth(result.bid_mbp[t]) => result.bid_price[t] = NaN
        /\ \A t \in DOMAIN result.ask_price :
               NoPositiveDepth(result.ask_mbp[t]) => result.ask_price[t] = NaN

Defined(v) == v # NaN

\* C5: at every timestamp of both series returned by process, if bid_price
\* and ask_price are both defined then bid_price <= ask_price.
C5_NeverCrossed ==
    (pc = "processed" /\ result.status = "ok") =>
        \A t \in (DOMAIN result.bid_price) \cap (DOMAIN result.ask_price) :
            (Defined(result.bid_price[t]) /\ Defined(result.ask_price[t]))
                => result.bid_price[t] <= result.ask_price[t]

\* no bid-tagged row of the input is priced above an ask-tagged row
InputUncrossed(f) ==
    \A i, j \in Rows(f) :
        (f[i].bid_or_ask = BID /\ f[j].bid_or_ask = ASK) => f[i].price <= f[j].price

\* C5 as amended: process reports bid_price <= ask_price at every common
\* timestamp where both are defined, provided no bid row of the input is
\* priced above an ask row of the input.
C5_UncrossedInputNeverCrossed ==
    (pc = "processed" /\ result.status = "ok" /\ InputUncrossed(df)) =>
        \A t \in (DOMAIN result.bid_price) \cap (DOMAIN result.ask_price) :
            (Defined(result.bid_price[t]) /\ Defined(result.ask_price[t]))
                => result.bid_price[t] <= result.ask_price[t]

\* a bid and an ask both rest at a common timestamp of an uncrossed input
C5_Witness ==
    /\ pc = "processed" /\ result.status = "ok" /\ InputUncrossed(df)
    /\ \E t \in (DOMAIN result.bid_price) \cap (DOMAIN result.ask_price) :
          /\ result.bid_price[t] > 0
          /\ Defined(result.ask_price[t])
          /\ result.bid_price[t] <= result.ask_price[t]

\* a row whose side tag is missing or is neither 1 nor 2
BadSideTag(f) == \E i \in Rows(f) : f[i].bid_or_ask \notin {BID, ASK}
\* an order whose timestamps do not increase strictly in event order
BadTimestamps(f) ==
    \E i, j \in Rows(f) :
        /\ i < j /\ f[i].order_number = f[j].order_number
        /\ f[i].bid_or_ask = f[j].bid_or_ask /\ f[i].bid_or_ask \in {BID, ASK}
        /\ f[j].timestamp <= f[i].timestamp
Malformed(f) == BadSideTag(f) \/ BadTimestamps(f)

\* C10: process never silently drops or repairs a malformed record: an
\* input with a missing/unknown side tag, or with non-monotonic or
\* duplicate timestamps within an order, ends in an error.
C10_MalformedIsReported ==
    (pc = "processed" /\ Malformed(df)) => result.status # "ok"

\* the window the last find_*_matching_price call looked at
Lo == IF result.auction = "morning" THEN MorningStart ELSE ClosingStart
Hi == IF result.auction = "morning" THEN MorningEnd ELSE ClosingEnd
InWindow(f, lo, hi) == {i \in Rows(f) : lo <= f[i].timestamp /\ f[i].timestamp <= hi}
CountAt(f, t) == Cardinality({i \in Rows(f) : f[i].timestamp = t})
\* the events at timestamp t flagged as a trade with nonzero quantity
Qualifying(f, t) ==
    {i \in Rows(f) : f[i].timestamp = t /\ f[i].change_reason = TRADE
                     /\ f[i].mp_quantity # 0}

\* C7: with a non-empty window (both ends inclusive) the functions return a
\* timestamp of the window with the highest event count in it, and the
\* price of the first event at that timestamp with change_reason 3 and
\* nonzero quantity, or 0 when no event there qualifies; events outside the
\* window do not influence the result.
C7_MostFrequentAndFirstTrade ==
    (pc = "matched" /\ InWindow(df, Lo, Hi) # {}) =>
        /\ \E i \in InWindow(df, Lo, Hi) : df[i].timestamp = result.timestamp
        /\ \A i \in InWindow(df, Lo, Hi) :
               CountAt(df, df[i].timestamp) <= CountAt(df, result.timestamp)
        /\ result.price =
               IF Qualifying(df, result.timestamp) = {} THEN 0
               ELSE df[Min(Qualifying(df, result.timestamp))].price

\* the most frequent timestamp has a zero-quantity trade before the first
\* qualifying trade, and an event outside the window is present
C7_Witness ==
    /\ pc = "matched" /\ Len(df) = 3
    /\ Cardinality(InWindow(df, Lo, Hi)) = 2
    /\ df[1].timestamp = result.timestamp /\ df[2].timestamp = result.timestamp
    /\ df[1].change_reason = TRADE /\ df[1].mp_quantity = 0
    /\ df[2].change_reason = TRADE /\ df[2].mp_quantity # 0
    /\ df[1].price # df[2].price
    /\ result.price = df[2].price

\* C8: when several timestamps of the window share the highest event count,
\* the earliest of them is selected, whatever the order of the events.
C8_TieSelectsEarliest ==
    (pc = "matched" /\ InWindow(df, Lo, Hi) # {}) =>
        \A i \in InWindow(df, Lo, Hi) :
            CountAt(df, df[i].timestamp) >= CountAt(df, result.timestamp)
                => result.timestamp <= df[i].timestamp

\* the rows of stock sc, as positions of df
RowsOfStock(f, sc) == {i \in Rows(f) : f[i].stockcode = sc}

\* the best price of a reconstructed series as of timestamp ts
AsOf(series, ts) ==
    LET seen == {t \in DOMAIN series : t <= ts}
    IN  IF seen = {} THEN NaN ELSE series[Max(seen)]

LastFieldAt(f, sc, ts, side) ==
    LET at == {i \in RowsOfStock(f, sc) : f[i].timestamp = ts /\ f[i].bid_or_ask = side}
    IN  IF at = {} THEN 0 ELSE f[Max(at)].bestprice

EmptyWindow(f, sc, lo, hi) ==
    \A i \in RowsOfStock(f, sc) : ~(lo <= f[i].timestamp /\ f[i].timestamp <= hi)

\* C9: for every group whose opening (closing) window holds no event,
\* process_daily_data yields for that auction an absent matching timestamp,
\* matching price 0 and quotes 0 and 0, whatever events exist elsewhere in
\* the day, the pre-close window included.
C9_EmptyWindowSentinel ==
    pc = "summarised" =>
        \A sc \in DOMAIN result :
            /\ EmptyWindow(df, sc, MorningStart, MorningEnd) =>
                  /\ result[sc].morning_matching_timestamp = NaT
                  /\ result[sc].morning_matching_price = 0
                  /\ result[sc].morning_bid_price = 0
                  /\ result[sc].morning_ask_price = 0
            /\ EmptyWindow(df, sc, ClosingStart, ClosingEnd) =>
                  /\ result[sc].closing_matching_timestamp = NaT
                  /\ result[sc].closing_matching_price = 0
                  /\ result[sc].closing_bid_price = 0
                  /\ result[sc].closing_ask_price = 0

\* a group with rows in the pre-close window and none in the closing
\* window, next to a group that has a closing auction
C9_Witness ==
    /\ pc = "summarised"
    /\ \E sc, other \in DOMAIN result :
          /\ EmptyWindow(df, sc, ClosingStart, ClosingEnd)
          /\ ~EmptyWindow(df, sc, PreCloseStart, PreCloseEnd)
          /\ ~EmptyWindow(df, sc, MorningStart, MorningEnd)
          /\ result[sc].closing_matching_timestamp = NaT
          /\ result[sc].closing_bid_price = 0
          /\ result[sc].closing_ask_price = 0
          /\ result[other].closing_matching_timestamp # NaT

====
